---- MODULE Spec2Model ----
(***************************************************************************)
(* Model of the application readiness evaluation and of the deployment     *)
(* wait (WaitOnApplication) of the marathon client, src/application.go.    *)
(* Time is counted in units of the poll interval (500 ms).                  *)
(***************************************************************************)
EXTENDS Integers, Sequences, FiniteSets, TLC

\* ------------------------------------------------------------------ bounds
MaxInstances == 1
MaxTasks == 2
MaxChecks == 1
MaxTimeout == 2
CallCap == 2
\* r.config.DefaultDeploymentTimeout, in poll intervals
DefaultDeploymentTimeout == 3
\* time.Duration(500) * time.Millisecond, the unit of the clock
PollInterval == 1
MaxTime == DefaultDeploymentTimeout + MaxTimeout

\* ------------------------------------------------------------- data model
\* a health-check result slot: *HealthCheckResult, nil when the task flaps
Slots == {"Alive", "NotAlive", "nil"}

Range(s) == {s[i] : i \in 1..Len(s)}

SeqsUpTo(S, n) == UNION {[1..k -> S] : k \in 0..n}

\* Task.HealthCheckResult is a slice: nil, or a list of slots; a task has at
\* most one slot per health check configured on the application
TasksOf(n) ==
  {[isNil |-> TRUE, HealthCheckResult |-> <<>>]}
    \cup {[isNil |-> FALSE, HealthCheckResult |-> s] : s \in SeqsUpTo(Slots, n)}

\* Application.Tasks is a slice: nil, or a list of tasks
TaskListsOf(n) ==
  {[isNil |-> TRUE, items |-> <<>>]}
    \cup {[isNil |-> FALSE, items |-> s] : s \in SeqsUpTo(TasksOf(n), MaxTasks)}

\* the fields of Application the readiness rules read; HealthChecks is the
\* number of configured checks (nil and empty are both 0)
Applications ==
  UNION {[Instances : 0..MaxInstances, TasksRunning : 0..MaxInstances,
          HealthChecks : {n}, Tasks : TaskListsOf(n)] : n \in 0..MaxChecks}

NilTasks == [isNil |-> TRUE, items |-> <<>>]
\* no application value held (nil pointer)
NoApp == [Instances |-> 0 - 1, TasksRunning |-> 0 - 1, HealthChecks |-> 0, Tasks |-> NilTasks]

Names == {"", "app"}
Timeouts == (0 - 1)..MaxTimeout

\* ---------------------------------------------------------- pure functions
AllTaskRunningIgnoresNil(r) ==
  IF r.Instances = 0 THEN TRUE
  ELSE r.TasksRunning = r.Instances

AllTaskRunningCountsTasks(r) ==
  IF r.Instances = 0 THEN TRUE
  ELSE IF r.Tasks.isNil THEN FALSE
  ELSE Len(r.Tasks.items) = r.Instances

AllTaskRunning(r) ==
  IF r.Instances = 0 THEN TRUE
  ELSE IF r.Tasks.isNil THEN FALSE
  ELSE r.TasksRunning = r.Instances

HasHealthChecks(r) == r.HealthChecks > 0

ChecksAliveSkipsNil(r) ==
  \A i \in 1..Len(r.Tasks.items) :
    LET task == r.Tasks.items[i] IN
      task.isNil \/ \A j \in 1..Len(task.HealthCheckResult) :
                      task.HealthCheckResult[j] # "NotAlive"

\* the loop over tasks and their health-check results in ApplicationOK
ChecksAlive(r) ==
  \A i \in 1..Len(r.Tasks.items) :
    LET task == r.Tasks.items[i] IN
      task.isNil \/ \A j \in 1..Len(task.HealthCheckResult) :
                      /\ task.HealthCheckResult[j] # "nil"
                      /\ task.HealthCheckResult[j] = "Alive"

\* the bool ApplicationOK returns once the application is found and fetched
ApplicationOKResult(r) ==
  IF ~AllTaskRunning(r) THEN FALSE
  ELSE IF ~HasHealthChecks(r) THEN TRUE
  ELSE ChecksAlive(r)

\* the condition under which the poll loop returns nil
WaitReadyWithHealth(r) == ApplicationOKResult(r)

WaitReady(r) == AllTaskRunning(r)

EffectiveTimeoutNoDefault(t) == t

\* the timeout the wait runs with
EffectiveTimeout(t) == IF t <= 0 THEN DefaultDeploymentTimeout ELSE t

\* what the model keeps of a snapshot the poll loop fetched: its instance
\* count, the shape of its task list and whether every health-check result
\* of its tasks is alive
View(r) ==
  [Instances |-> r.Instances, tasksNil |-> r.Tasks.isNil,
   tasks |-> Len(r.Tasks.items), allAlive |-> ChecksAlive(r)]
NoView == View(NoApp)

\* the snapshots on which the poll loop returns, and whether some snapshot
\* makes it go on
ReadyViews == {View(r) : r \in {a \in Applications : WaitReady(a)}}
NotReadyViews == {View(r) : r \in {a \in Applications : ~WaitReady(a)}}

Bump(c) == IF c < CallCap THEN c + 1 ELSE c

\* ------------------------------------------------------------------ state
VARIABLES
  op,              \* the operation the caller invoked
  name,            \* its application id argument
  reqTimeout,      \* the timeout argument of WaitOnApplication
  waitOnRunning,   \* the waitOnRunning argument of Create/UpdateApplication
  callerPc,        \* where the calling goroutine is
  outcome,         \* the error the operation returned ("none" while running)
  result,          \* the bool the operation returned (HasApplication, ApplicationOK)
  timeout,         \* the local timeout after the default is substituted
  deadlineAt,      \* the instant the deadline timer is due (-1: no timer)
  now,             \* the clock
  workerPc,        \* the goroutine running the poll function
  wakeAt,          \* the instant the worker's time.Sleep ends
  watcherPc,       \* the goroutine waiting on stop_channel
  stopChan,        \* number of values buffered in stop_channel
  closed,          \* stop_channel is closed
  flick,           \* the atomicSwitch
  signalled,       \* a stop signal has been sent on stop_channel
  cancelRequested, \* the stop signal came from a cancellation, not the timer
  app,             \* the application snapshot ApplicationOK fetched
  polled,          \* what the poll loop last fetched: the fields of the snapshot
                   \* that made it return (NoView otherwise)
  obs,             \* what the last existence query / fetch of the loop observed
  sawReady,        \* some poll of this call found AllTaskRunning on a fetched snapshot
  sinceSleep,      \* listings the poll loop requested since its last sleep ended
                   \* (saturating)
  listCalls,       \* listings requested from the remote API (saturating)
  fetchCalls       \* snapshots requested from the remote API (saturating)

vars == <<op, name, reqTimeout, waitOnRunning, callerPc, outcome, result, timeout,
          deadlineAt, now, workerPc, wakeAt, watcherPc, stopChan, closed, flick,
          signalled, cancelRequested, app, polled, obs, sawReady, sinceSleep,
          listCalls, fetchCalls>>

callVars == <<op, name, reqTimeout, waitOnRunning>>
sessionVars == <<timeout, deadlineAt>>
workerVars == <<workerPc, wakeAt, app, polled, obs, sawReady, sinceSleep>>
watcherVars == <<watcherPc, closed, flick>>
remoteVars == <<listCalls, fetchCalls>>

WaitOps == {"WaitOnApplication", "CreateApplication", "UpdateApplication"}

Init ==
  /\ op = "none" /\ name = "" /\ reqTimeout = 0 /\ waitOnRunning = FALSE
  /\ callerPc = "idle" /\ outcome = "none" /\ result = FALSE
  /\ timeout = 0 /\ deadlineAt = 0 - 1 /\ now = 0
  /\ workerPc = "none" /\ wakeAt = 0
  /\ watcherPc = "none" /\ stopChan = 0 /\ closed = FALSE /\ flick = FALSE
  /\ signalled = FALSE /\ cancelRequested = FALSE
  /\ app = NoApp /\ polled = NoView /\ obs = "none" /\ sawReady = FALSE
  /\ sinceSleep = 0
  /\ listCalls = 0 /\ fetchCalls = 0

\* --------------------------------------------------------- HasApplication
\* the (found, err) results HasApplication can return for an id; only the
\* empty id returns without listing
HasApplicationOutcomes(n) ==
  IF n = "" THEN {"invalid"} ELSE {"listErr", "absent", "found"}

ListsRemote(o) == o # "invalid"

HasApplicationCall ==
  /\ callerPc = "idle"
  /\ \E n \in Names :
       /\ op' = "HasApplication" /\ name' = n
  /\ callerPc' = "has"
  /\ UNCHANGED <<reqTimeout, waitOnRunning, outcome, result, sessionVars, now,
                 workerVars, watcherVars, stopChan, signalled, cancelRequested, remoteVars>>

ApplicationOKCall ==
  /\ callerPc = "idle"
  /\ \E n \in Names :
       /\ op' = "ApplicationOK" /\ name' = n
  /\ callerPc' = "has"
  /\ UNCHANGED <<reqTimeout, waitOnRunning, outcome, result, sessionVars, now,
                 workerVars, watcherVars, stopChan, signalled, cancelRequested, remoteVars>>

HasApplicationRetriesAbsent ==
  /\ callerPc = "has"
  /\ \E o \in HasApplicationOutcomes(name) :
       /\ listCalls' = IF ListsRemote(o) THEN Bump(listCalls) ELSE listCalls
       /\ obs' = o
       /\ \/ /\ o = "invalid"
             /\ outcome' = "ErrInvalidArgument" /\ result' = FALSE /\ callerPc' = "done"
          \/ /\ o = "listErr"
             /\ outcome' = "ErrRemote" /\ result' = FALSE /\ callerPc' = "done"
          \/ /\ o = "absent" /\ op = "HasApplication"
             /\ outcome' = "nil" /\ result' = FALSE /\ callerPc' = "done"
          \/ /\ o = "absent" /\ op = "ApplicationOK"
             /\ UNCHANGED <<outcome, result>> /\ callerPc' = "has"
          \/ /\ o = "found" /\ op = "HasApplication"
             /\ outcome' = "nil" /\ result' = TRUE /\ callerPc' = "done"
          \/ /\ o = "found" /\ op = "ApplicationOK"
             /\ UNCHANGED <<outcome, result>> /\ callerPc' = "fetch"
  /\ UNCHANGED <<callVars, sessionVars, now, workerPc, wakeAt, app, polled, sawReady, sinceSleep,
                 watcherVars, stopChan, signalled, cancelRequested, fetchCalls>>

\* HasApplication itself, and the existence check that opens ApplicationOK
HasApplication ==
  /\ callerPc = "has"
  /\ \E o \in HasApplicationOutcomes(name) :
       /\ listCalls' = IF ListsRemote(o) THEN Bump(listCalls) ELSE listCalls
       /\ obs' = o
       /\ \/ /\ o = "invalid"
             /\ outcome' = "ErrInvalidArgument" /\ result' = FALSE /\ callerPc' = "done"
          \/ /\ o = "listErr"
             /\ outcome' = "ErrRemote" /\ result' = FALSE /\ callerPc' = "done"
          \/ /\ o = "absent" /\ op = "HasApplication"
             /\ outcome' = "nil" /\ result' = FALSE /\ callerPc' = "done"
          \/ /\ o = "absent" /\ op = "ApplicationOK"
             /\ outcome' = "ErrDoesNotExist" /\ result' = FALSE /\ callerPc' = "done"
          \/ /\ o = "found" /\ op = "HasApplication"
             /\ outcome' = "nil" /\ result' = TRUE /\ callerPc' = "done"
          \/ /\ o = "found" /\ op = "ApplicationOK"
             /\ UNCHANGED <<outcome, result>> /\ callerPc' = "fetch"
  /\ UNCHANGED <<callVars, sessionVars, now, workerPc, wakeAt, app, polled, sawReady, sinceSleep,
                 watcherVars, stopChan, signalled, cancelRequested, fetchCalls>>

\* ---------------------------------------------------------- ApplicationOK
\* the rest of ApplicationOK: fetch the application and evaluate it
ApplicationOK ==
  /\ callerPc = "fetch"
  /\ fetchCalls' = Bump(fetchCalls)
  /\ \/ /\ obs' = "fetchErr"
        /\ outcome' = "ErrRemote" /\ result' = FALSE /\ app' = NoApp
     \/ \E r \in Applications :
          /\ obs' = "fetched"
          /\ app' = r
          /\ outcome' = "nil" /\ result' = ApplicationOKResult(r)
  /\ callerPc' = "done"
  /\ UNCHANGED <<callVars, sessionVars, now, workerPc, wakeAt, polled, sawReady, sinceSleep,
                 watcherVars, stopChan, signalled, cancelRequested, listCalls>>

\* ------------------------------------------- Create/UpdateApplication
WaitOnApplicationCall ==
  /\ callerPc = "idle"
  /\ \E n \in Names, t \in Timeouts :
       /\ op' = "WaitOnApplication" /\ name' = n /\ reqTimeout' = t
  /\ callerPc' = "wait"
  /\ UNCHANGED <<waitOnRunning, outcome, result, sessionVars, now, workerVars,
                 watcherVars, stopChan, signalled, cancelRequested, remoteVars>>

CreateApplicationCall ==
  /\ callerPc = "idle"
  /\ \E n \in Names, w \in BOOLEAN :
       /\ op' = "CreateApplication" /\ name' = n /\ waitOnRunning' = w
  /\ callerPc' = "submit"
  /\ UNCHANGED <<reqTimeout, outcome, result, sessionVars, now, workerVars,
                 watcherVars, stopChan, signalled, cancelRequested, remoteVars>>

UpdateApplicationCall ==
  /\ callerPc = "idle"
  /\ \E n \in Names, w \in BOOLEAN :
       /\ op' = "UpdateApplication" /\ name' = n /\ waitOnRunning' = w
  /\ callerPc' = "submit"
  /\ UNCHANGED <<reqTimeout, outcome, result, sessionVars, now, workerVars,
                 watcherVars, stopChan, signalled, cancelRequested, remoteVars>>

SubmitAlwaysWaits ==
  /\ callerPc = "submit"
  /\ \/ /\ outcome' = "ErrRemote" /\ callerPc' = "done"
        /\ UNCHANGED reqTimeout
     \/ /\ reqTimeout' = 0 /\ callerPc' = "wait"
        /\ UNCHANGED outcome
  /\ UNCHANGED <<op, name, waitOnRunning, result, sessionVars, now, workerVars,
                 watcherVars, stopChan, signalled, cancelRequested, remoteVars>>

\* apiPost / apiPut of the application, then the choice to wait; the wait is
\* WaitOnApplication(application.ID, 0)
Submit ==
  /\ callerPc = "submit"
  /\ \/ /\ outcome' = "ErrRemote" /\ callerPc' = "done"
        /\ UNCHANGED reqTimeout
     \/ /\ ~waitOnRunning
        /\ outcome' = "nil" /\ callerPc' = "done"
        /\ UNCHANGED reqTimeout
     \/ /\ waitOnRunning
        /\ reqTimeout' = 0 /\ callerPc' = "wait"
        /\ UNCHANGED outcome
  /\ UNCHANGED <<op, name, waitOnRunning, result, sessionVars, now, workerVars,
                 watcherVars, stopChan, signalled, cancelRequested, remoteVars>>

\* ------------------------------------------------------ WaitOnApplication
\* the default substitution, then deadline(timeout, work): the timer is set,
\* the worker goroutine is started and the caller blocks in the select
WaitStart ==
  /\ callerPc = "wait"
  /\ timeout' = EffectiveTimeout(reqTimeout)
  /\ deadlineAt' = now + EffectiveTimeout(reqTimeout)
  /\ callerPc' = "blocked"
  /\ workerPc' = "start"
  /\ UNCHANGED <<callVars, outcome, result, now, wakeAt, app, polled, obs, sawReady, sinceSleep,
                 watcherVars, stopChan, signalled, cancelRequested, remoteVars>>

\* the poll function begins: var flick; go func() { <-stop_channel ... }()
WorkerStart ==
  /\ workerPc = "start"
  /\ workerPc' = "loop"
  /\ watcherPc' = "recv"
  /\ UNCHANGED <<callVars, callerPc, outcome, result, sessionVars, now, wakeAt, app,
                 polled, obs, sawReady, sinceSleep, closed, flick, stopChan, signalled,
                 cancelRequested, remoteVars>>

LoopCheckIgnoresSwitch ==
  /\ workerPc = "loop"
  /\ workerPc' = "has"
  /\ UNCHANGED <<callVars, callerPc, outcome, result, sessionVars, now, wakeAt, app,
                 polled, obs, sawReady, sinceSleep, watcherVars, stopChan, signalled,
                 cancelRequested, remoteVars>>

\* for !flick.IsSwitched() { ... } return nil
LoopCheck ==
  /\ workerPc = "loop"
  /\ \/ /\ flick
        /\ workerPc' = "send"
     \/ /\ ~flick
        /\ workerPc' = "has"
  /\ UNCHANGED <<callVars, callerPc, outcome, result, sessionVars, now, wakeAt, app,
                 polled, obs, sawReady, sinceSleep, watcherVars, stopChan, signalled,
                 cancelRequested, remoteVars>>

AfterHasErrorReturns(o) ==
  CASE o \in {"invalid", "listErr"} -> "send"
    [] o = "absent" -> "sleep"
    [] o = "found" -> "fetch"

AfterHasAbsentReturns(o) ==
  CASE o \in {"invalid", "listErr"} -> "loop"
    [] o = "absent" -> "send"
    [] o = "found" -> "fetch"

\* where the loop body goes after r.HasApplication(name): continue on an
\* error, fetch when found, sleep otherwise
AfterHas(o) ==
  CASE o \in {"invalid", "listErr"} -> "loop"
    [] o = "absent" -> "sleep"
    [] o = "found" -> "fetch"

WakeTime == IF now + PollInterval > MaxTime THEN MaxTime ELSE now + PollInterval

\* found, err := r.HasApplication(name) in the loop body
PollHas ==
  /\ workerPc = "has"
  /\ \E o \in HasApplicationOutcomes(name) :
       /\ listCalls' = IF ListsRemote(o) THEN Bump(listCalls) ELSE listCalls
       /\ obs' = o
       /\ workerPc' = AfterHas(o)
       /\ wakeAt' = IF AfterHas(o) = "sleep" THEN WakeTime ELSE wakeAt
       /\ sinceSleep' = IF ListsRemote(o) THEN Bump(sinceSleep) ELSE sinceSleep
  /\ UNCHANGED <<callVars, callerPc, outcome, result, sessionVars, now, app, polled, sawReady, watcherVars, stopChan, signalled, cancelRequested, fetchCalls>>

\* app, err := r.Application(name); err == nil && app.AllTaskRunning()
PollFetch ==
  /\ workerPc = "fetch"
  /\ fetchCalls' = Bump(fetchCalls)
  /\ \/ /\ obs' = "fetchErr"
        /\ workerPc' = "sleep" /\ wakeAt' = WakeTime
        /\ UNCHANGED <<polled, sawReady>>
     \/ \E v \in NotReadyViews :
          /\ obs' = "notReady"
          /\ workerPc' = "sleep" /\ wakeAt' = WakeTime
          /\ UNCHANGED <<polled, sawReady>>
     \/ \E v \in ReadyViews :
          /\ obs' = "ready"
          /\ polled' = v
          /\ sawReady' = TRUE
          /\ workerPc' = "send"
          /\ UNCHANGED wakeAt
  /\ UNCHANGED <<callVars, callerPc, outcome, result, sessionVars, now, app, sinceSleep,
                 watcherVars, stopChan, signalled, cancelRequested, listCalls>>

\* time.Sleep(500ms) ends
PollWake ==
  /\ workerPc = "sleep"
  /\ now >= wakeAt
  /\ workerPc' = "loop"
  /\ sinceSleep' = 0
  /\ UNCHANGED <<callVars, callerPc, outcome, result, sessionVars, now, wakeAt, app,
                 polled, obs, sawReady, watcherVars, stopChan, signalled,
                 cancelRequested, remoteVars>>

\* <-stop_channel
WatcherRecv ==
  /\ watcherPc = "recv"
  /\ stopChan > 0 \/ closed
  /\ stopChan' = IF stopChan > 0 THEN stopChan - 1 ELSE 0
  /\ watcherPc' = "close"
  /\ UNCHANGED <<callVars, callerPc, outcome, result, sessionVars, now, workerVars,
                 closed, flick, signalled, cancelRequested, remoteVars>>

\* close(stop_channel)
WatcherClose ==
  /\ watcherPc = "close"
  /\ closed' = TRUE
  /\ watcherPc' = "switch"
  /\ UNCHANGED <<callVars, callerPc, outcome, result, sessionVars, now, workerVars,
                 flick, stopChan, signalled, cancelRequested, remoteVars>>

\* flick.SwitchOn()
WatcherSwitch ==
  /\ watcherPc = "switch"
  /\ flick' = TRUE
  /\ watcherPc' = "done"
  /\ UNCHANGED <<callVars, callerPc, outcome, result, sessionVars, now, workerVars,
                 closed, stopChan, signalled, cancelRequested, remoteVars>>

\* ------------------------------------------------ the bounded wait, deadline
WaitReturnDropsError(err) == "nil"

\* err := deadline(...); return err
WaitReturn(err) == err

\* the work completed: its error is the outcome of the wait
ResultRecv ==
  /\ callerPc = "blocked"
  /\ workerPc = "send"
  /\ outcome' = WaitReturn("nil")
  /\ callerPc' = "done"
  /\ workerPc' = "done"
  /\ UNCHANGED <<callVars, result, sessionVars, now, wakeAt, app, polled, obs, sawReady, sinceSleep,
                 watcherVars, stopChan, signalled, cancelRequested, remoteVars>>

\* the timer fired: the work is signalled to stop and the outcome is the
\* timeout error
TimerFire ==
  /\ callerPc = "blocked"
  /\ now >= deadlineAt
  /\ outcome' = WaitReturn("ErrTimeoutError")
  /\ callerPc' = "done"
  /\ stopChan' = IF signalled THEN stopChan ELSE stopChan + 1
  /\ signalled' = TRUE
  /\ UNCHANGED <<callVars, result, sessionVars, now, workerVars, watcherVars,
                 cancelRequested, remoteVars>>

\* the session is cancelled: the stop signal is delivered, once
Cancel ==
  /\ callerPc = "blocked"
  /\ ~signalled
  /\ stopChan' = stopChan + 1
  /\ signalled' = TRUE
  /\ cancelRequested' = TRUE
  /\ UNCHANGED <<callVars, callerPc, outcome, result, sessionVars, now, workerVars,
                 watcherVars, remoteVars>>

\* time passes while someone waits for it
Tick ==
  /\ callerPc = "blocked" \/ workerPc = "sleep"
  /\ now < MaxTime
  /\ now' = now + 1
  /\ UNCHANGED <<callVars, callerPc, outcome, result, sessionVars, workerVars,
                 watcherVars, stopChan, signalled, cancelRequested, remoteVars>>

Next ==
  \/ HasApplicationCall
  \/ ApplicationOKCall
  \/ HasApplication
  \/ ApplicationOK
  \/ WaitOnApplicationCall
  \/ CreateApplicationCall
  \/ UpdateApplicationCall
  \/ Submit
  \/ WaitStart
  \/ WorkerStart
  \/ LoopCheck
  \/ PollHas
  \/ PollFetch
  \/ PollWake
  \/ WatcherRecv
  \/ WatcherClose
  \/ WatcherSwitch
  \/ ResultRecv
  \/ TimerFire
  \/ Cancel
  \/ Tick

Spec == Init /\ [][Next]_vars

\* the goroutines and the timer are scheduled fairly and time advances
FairSpec ==
  /\ Spec
  /\ WF_vars(Tick)
  /\ WF_vars(TimerFire)
  /\ WF_vars(ResultRecv)
  /\ WF_vars(WaitStart)
  /\ WF_vars(WorkerStart)
  /\ WF_vars(LoopCheck)
  /\ WF_vars(PollHas)
  /\ WF_vars(PollFetch)
  /\ WF_vars(PollWake)
  /\ WF_vars(WatcherRecv)
  /\ WF_vars(WatcherClose)
  /\ WF_vars(WatcherSwitch)

\* ----------------------------------------------------------------- claims
WaitReturned == op \in WaitOps /\ deadlineAt >= 0 /\ callerPc = "done"

C2_CancelReturnsCancellation ==
  (WaitReturned /\ cancelRequested /\ ~sawReady /\ now < deadlineAt)
    => outcome = "ErrCancelled"

\* every snapshot with AllTaskRunning is one on which the poll loop returns
ReadyCoversAllTaskRunning ==
  \A a \in Applications : AllTaskRunning(a) => View(a) \in ReadyViews

\* C3: in the wait path a fetched snapshot with AllTaskRunning makes the
\* poll function return nil in that iteration, whatever the health-check
\* results of its tasks are.
C3_ReadyReturnsAtOnce ==
  /\ ReadyCoversAllTaskRunning
  /\ obs = "ready" => (workerPc \in {"send", "done"} /\ polled \in ReadyViews)
  /\ polled # NoView => obs = "ready"

C3_Witness ==
  /\ WaitReturned /\ outcome = "nil"
  /\ obs = "ready" /\ polled.Instances > 0 /\ polled.tasks > 0 /\ ~polled.allAlive

OKEvaluated == op = "ApplicationOK" /\ callerPc = "done" /\ obs = "fetched"

\* C4 (as claimed): ApplicationOK on a fetched snapshot with Instances = 0
\* returns true whatever the task list holds.
C4_ZeroInstancesReady ==
  (OKEvaluated /\ app.Instances = 0) => result = TRUE

AllSlots(r) ==
  UNION {Range(r.Tasks.items[i].HealthCheckResult) : i \in 1..Len(r.Tasks.items)}

C7_NoParityNotReady ==
  (OKEvaluated /\ app.Instances > 0 /\ app.TasksRunning # app.Instances)
    => result = FALSE

C7_Witness ==
  /\ OKEvaluated /\ app.Instances > 0 /\ app.TasksRunning # app.Instances
  /\ Len(app.Tasks.items) = app.Instances
  /\ AllSlots(app) = {"Alive"}
  /\ result = FALSE

\* C8: a wait returns only nil, the timeout error, a cancellation or the
\* invalid-argument error; a failed or empty existence query sends the loop
\* to its next iteration (directly or through the sleep), a failed fetch to
\* the sleep, and the loop head starts the next iteration unless the switch
\* is on.
C8_PollErrorsSwallowed ==
  /\ [](WaitReturned =>
          outcome \in {"nil", "ErrTimeoutError", "ErrCancelled", "ErrInvalidArgument"})
  /\ [][(workerPc = "has" /\ workerPc' # "has" /\ obs' \in {"invalid", "listErr", "absent"})
          => workerPc' \in {"loop", "sleep"}]_vars
  /\ [][(workerPc = "fetch" /\ workerPc' # "fetch" /\ obs' \in {"fetchErr", "notReady"})
          => workerPc' = "sleep"]_vars
  /\ [][(workerPc = "sleep" /\ workerPc' # "sleep") => workerPc' = "loop"]_vars
  /\ [][(workerPc = "loop" /\ workerPc' # "loop" /\ ~flick) => workerPc' = "has"]_vars

C8_Witness ==
  /\ op = "WaitOnApplication" /\ callerPc = "blocked"
  /\ obs = "fetchErr" /\ workerPc = "has" /\ listCalls >= 2

\* C9 (as claimed): with an empty id HasApplication, ApplicationOK and
\* WaitOnApplication return the invalid-argument error without any remote
\* call.
C9_EmptyIdFailsFast ==
  (name = "" /\ callerPc = "done"
     /\ op \in {"HasApplication", "ApplicationOK", "WaitOnApplication"})
    => (outcome = "ErrInvalidArgument" /\ listCalls = 0 /\ fetchCalls = 0)

\* C10: a wait called with timeout <= 0 runs with the default deployment
\* timeout: its timer is due after the default and it does not time out
\* earlier; the waits of Create/UpdateApplication are called with 0.
C10_NonPositiveTimeoutIsDefault ==
  /\ (op \in WaitOps /\ deadlineAt >= 0 /\ reqTimeout <= 0)
       => /\ timeout = DefaultDeploymentTimeout
          /\ deadlineAt = DefaultDeploymentTimeout
          /\ outcome = "ErrTimeoutError" => now >= DefaultDeploymentTimeout
  /\ (op \in WaitOps /\ deadlineAt >= 0 /\ reqTimeout > 0) => timeout = reqTimeout
  /\ (op \in {"CreateApplication", "UpdateApplication"} /\ deadlineAt >= 0)
       => reqTimeout = 0

C10_Witness ==
  /\ op = "CreateApplication" /\ WaitReturned /\ reqTimeout = 0
  /\ outcome = "ErrTimeoutError" /\ now >= DefaultDeploymentTimeout

Mutating == op \in {"CreateApplication", "UpdateApplication"}
NoPoll == workerPc = "none" /\ watcherPc = "none" /\ listCalls = 0 /\ fetchCalls = 0

\* C11: Create/UpdateApplication submit before any polling; a failed submit
\* returns its error and a call with waitOnRunning false returns nil, both
\* without a poll; with waitOnRunning true the call returns what the wait on
\* the submitted id returns.
C11_SubmitThenOptionalWait ==
  /\ (Mutating /\ callerPc = "submit") => NoPoll
  /\ (Mutating /\ ~waitOnRunning) => (NoPoll /\ deadlineAt < 0)
  /\ (Mutating /\ outcome = "ErrRemote") => (NoPoll /\ deadlineAt < 0 /\ callerPc = "done")
  /\ (Mutating /\ callerPc = "done" /\ ~waitOnRunning) => outcome \in {"nil", "ErrRemote"}
  /\ (Mutating /\ callerPc = "done" /\ waitOnRunning /\ outcome # "ErrRemote")
       => /\ deadlineAt >= 0 /\ reqTimeout = 0
          /\ outcome \in {"nil", "ErrTimeoutError"}
          /\ outcome = "nil" <=> workerPc = "done"

C11_Witness ==
  /\ op = "UpdateApplication" /\ waitOnRunning /\ WaitReturned
  /\ outcome = "ErrTimeoutError" /\ listCalls > 0

\* C12: ApplicationOK returns at once, with false, the not-found error when
\* the id is not listed (one listing, no fetch) and the remote error when the
\* listing or the fetch fails (one listing, at most one fetch).
C12_HealthQueryDoesNotRetry ==
  op = "ApplicationOK" =>
    /\ obs \in {"absent", "listErr", "fetchErr"} => (callerPc = "done" /\ result = FALSE)
    /\ obs = "absent" => (outcome = "ErrDoesNotExist" /\ listCalls = 1 /\ fetchCalls = 0)
    /\ obs = "listErr" => (outcome = "ErrRemote" /\ listCalls = 1 /\ fetchCalls = 0)
    /\ obs = "fetchErr" => (outcome = "ErrRemote" /\ listCalls = 1 /\ fetchCalls = 1)

C12_Witness ==
  /\ op = "ApplicationOK" /\ callerPc = "done" /\ obs = "absent"
  /\ outcome = "ErrDoesNotExist" /\ result = FALSE /\ listCalls = 1 /\ fetchCalls = 0

\* C13 (as claimed): the poll loop requests at most one listing between two
\* sleeps, on every path through the loop body.
C13_SleepBetweenQueries == sinceSleep <= 1

\* C14 (as claimed): a snapshot with Instances > 0 and a nil or empty task
\* list makes ApplicationOK return false and never makes the poll loop
\* return.
C14_NoTasksNotReady ==
  /\ (OKEvaluated /\ app.Instances > 0 /\ app.Tasks.items = <<>>) => result = FALSE
  /\ ~(polled # NoView /\ polled.Instances > 0 /\ polled.tasks = 0)

\* C15 (as claimed): with health checks configured, Instances > 0 and
\* TasksRunning = Instances, ApplicationOK returns true only if every task
\* has a result list and every result in it is Alive.
C15_ReadyOnlyIfEveryTaskAlive ==
  (OKEvaluated /\ app.HealthChecks > 0 /\ app.Instances > 0
     /\ app.TasksRunning = app.Instances /\ result = TRUE)
    => \A i \in 1..Len(app.Tasks.items) :
         /\ ~app.Tasks.items[i].isNil
         /\ Range(app.Tasks.items[i].HealthCheckResult) \subseteq {"Alive"}

\* C16: the blocked caller is released once, by the work's completion or by
\* the timer: released by the timer it gets the timeout error, the worker
\* has been signalled to stop and its result is never received; released by
\* the work it gets the work's error; nothing changes the outcome afterwards.
C16_OutcomeDecidedOnce ==
  /\ [](callerPc = "blocked" => outcome = "none")
  /\ []((WaitReturned /\ workerPc = "done") => outcome = "nil")
  /\ []((WaitReturned /\ workerPc # "done") => (outcome = "ErrTimeoutError" /\ signalled))
  /\ [][callerPc = "done" => (callerPc' = "done" /\ outcome' = outcome)]_vars
  /\ [][(callerPc = "blocked" /\ callerPc' # "blocked") => callerPc' = "done"]_vars

C16_Witness ==
  /\ WaitReturned /\ outcome = "ErrTimeoutError"
  /\ flick /\ workerPc = "send" /\ sawReady

\* C17: once the switch is on it stays on and the worker enters the loop
\* body no more: it finishes the iteration in progress (the listing, the
\* fetch and the sleep it is in, each at most once) and the poll function
\* returns; under fair scheduling the poll function returns after every
\* stop signal.
C17_StopsAfterSwitch ==
  /\ [][flick => flick']_vars
  /\ [][(flick /\ workerPc = "loop" /\ workerPc' # "loop") => workerPc' = "send"]_vars
  /\ [][(flick /\ workerPc = "has") => workerPc' \in {"has", "loop", "sleep", "fetch"}]_vars
  /\ [][(flick /\ workerPc = "fetch") => workerPc' \in {"fetch", "sleep", "send"}]_vars
  /\ [][(flick /\ workerPc = "sleep") => workerPc' \in {"sleep", "loop"}]_vars
  /\ [][(workerPc \in {"send", "done"}) => (workerPc' \in {"send", "done"})]_vars
  /\ (signalled ~> workerPc \in {"send", "done"})

C17_Witness ==
  /\ cancelRequested /\ flick /\ workerPc = "send"
  /\ ~sawReady /\ obs \in {"absent", "fetchErr", "notReady"} /\ listCalls > 0

\* C18 (as claimed): a wait returns nil only if some poll of the call
\* fetched a snapshot with AllTaskRunning; the nil of the poll function that
\* leaves the loop because the switch is on never reaches the caller.
C18_NilOnlyAfterReadyPoll ==
  (WaitReturned /\ outcome = "nil") => sawReady

\* C19 (as claimed): once a wait has returned and no goroutine can take a
\* step any more, the worker and the watcher have both terminated.
C19_NoGoroutineLeftBehind ==
  (WaitReturned /\ ~ENABLED Next) => (workerPc = "done" /\ watcherPc = "done")
====
